---- MODULE Spec2Model ----
(***************************************************************************)
(* Business-point directory service: the activity hierarchy (routes.py,    *)
(* services/activity_crud.py), phone reconciliation                        *)
(* (services/phone_crud.py) and the organization orchestrator              *)
(* (services/organization_crud.py) over the tables of models.py.           *)
(*                                                                         *)
(* The store is the set of committed rows.  Every request is served by a   *)
(* session (a member of Procs); a session's uncommitted reads live in      *)
(* proc[p] and become visible to others only by its commit step.           *)
(***************************************************************************)
EXTENDS Integers, Sequences, FiniteSets, TLC

\* ---------------------------------------------------------------- bounds
MaxActivityId == 4
MaxOrgId == 4
MaxPhoneId == 4
\* Requests served in a run of the concurrent directory.
MaxRequests == 2

\* None of Python / NULL of SQL.  Ids are positive, 0 is a falsy non-None int.
NULL == -1

Procs == {1, 2, 3}
ActivityIds == 1..MaxActivityId
\* parent_id values a request may carry: None, 0, an id (existing or not).
ParentInputs == {NULL, 0} \cup ActivityIds

VARIABLES
    activities,             \* table activities: id -> [parent_id]
    activity_seq,           \* next value of the activities id sequence
    organizations,          \* table organizations: id -> [name, building_id]
    organization_seq,
    phones,                 \* table phones: set of rows [id, number, organization_id]
    phone_seq,
    organization_activity,  \* association table: set of <<organization_id, activity_id>>
    proc,                   \* per session: the request in progress or its response
    requests                \* requests accepted so far

vars == <<activities, activity_seq, organizations, organization_seq,
          phones, phone_seq, organization_activity, proc, requests>>

activityTables == <<activities, activity_seq>>
orgTables == <<organizations, organization_seq, phones, phone_seq,
               organization_activity>>

Idle == [pc |-> "idle"]

\* ------------------------------------------------------- sequence helpers
Range(s) == {s[i] : i \in DOMAIN s}

NoDuplicates(s) == \A i, j \in DOMAIN s : i # j => s[i] # s[j]

Min(S) == CHOOSE x \in S : \A y \in S : x <= y

\* The rows of a result set in the order the engine returns them; the model
\* lists a set of ids in ascending order.
RECURSIVE SetToSeq(_)
SetToSeq(S) ==
    IF S = {} THEN <<>> ELSE <<Min(S)>> \o SetToSeq(S \ {Min(S)})

\* Result.unique(): drops every row equal to an earlier one, keeps the order.
Unique(s) ==
    LET first == {i \in DOMAIN s : \A j \in 1..(i - 1) : s[j] # s[i]}
    IN [k \in 1..Cardinality(first) |->
            s[CHOOSE i \in first : Cardinality({j \in first : j <= i}) = k]]

\* ------------------------------------------------------- activity queries
\* select(Activity).where(Activity.parent_id == parent_id): direct children.
\* parent_id = None compiles to IS NULL.
get_child_activities(acts, parent_id) ==
    {a \in DOMAIN acts : acts[a].parent_id = parent_id}

\* The recursive CTE "tree".  Non-recursive term.
CteBase(acts, parent_id) == get_child_activities(acts, parent_id)

\* Recursive term: actv JOIN prnt ON actv.parent_id = prnt.id
\*                      JOIN tree ON prnt.id = tree.id,
\* evaluated against the working table of the previous iteration.
CteRecursive(acts, work) ==
    {a \in DOMAIN acts : \E w \in work : w \in DOMAIN acts /\ acts[a].parent_id = w}

\* The rows fetched so far are kept up to this length; a traversal that
\* keeps producing rows beyond it goes on without recording them.
RowCap == MaxActivityId + 1

CteAppendNothing(rows, new) == rows
CteAppend(rows, new) ==
    IF Len(rows) + Cardinality(new) <= RowCap THEN rows \o SetToSeq(new) ELSE rows

\* get_activity_tree, in-memory part: children_map groups the fetched rows
\* by parent_id; attach_children fills each node's children recursively.
children_map(acts, rows, key) ==
    SelectSeq(rows, LAMBDA a : acts[a].parent_id = key)

RECURSIVE attach_children(_, _, _)
attach_children(acts, rows, id) ==
    LET kids == children_map(acts, rows, id)
    IN [id |-> id,
        parent_id |-> acts[id].parent_id,
        children |-> [i \in DOMAIN kids |-> attach_children(acts, rows, kids[i])]]

BuildTreeRootsOnly(acts, rows, parent_id) ==
    LET roots == children_map(acts, rows, parent_id)
    IN [i \in DOMAIN roots |->
          [id |-> roots[i], parent_id |-> acts[roots[i]].parent_id, children |-> <<>>]]
BuildTree(acts, rows, parent_id) ==
    LET roots == children_map(acts, rows, parent_id)
    IN [i \in DOMAIN roots |-> attach_children(acts, rows, roots[i])]

\* ----------------------------------------------------- activity handlers
\* POST /activities/ : routes.create_activity then ActivityService.create.
\* A truthy parent_id reaches service.is_level_less_than_3, which
\* ActivityService does not define: the call raises AttributeError before
\* anything is inserted.  A falsy parent_id (None or 0) goes straight to the
\* insert; parent_id = 0 references no row and the commit is rejected.
CreateActivity(p, parent_id) ==
    /\ proc[p] = Idle
    /\ parent_id = NULL => activity_seq <= MaxActivityId
    /\ IF parent_id # NULL /\ parent_id # 0
       THEN /\ proc' = [proc EXCEPT ![p] =
                    [pc |-> "done", op |-> "create_activity", parent_id |-> parent_id,
                     outcome |-> "AttributeError", id |-> NULL]]
            /\ UNCHANGED activityTables
       ELSE IF parent_id = NULL
       THEN /\ activities' = (activity_seq :> [parent_id |-> NULL]) @@ activities
            /\ activity_seq' = activity_seq + 1
            /\ proc' = [proc EXCEPT ![p] =
                    [pc |-> "done", op |-> "create_activity", parent_id |-> parent_id,
                     outcome |-> "ok", id |-> activity_seq]]
       ELSE /\ proc' = [proc EXCEPT ![p] =
                    [pc |-> "done", op |-> "create_activity", parent_id |-> parent_id,
                     outcome |-> "IntegrityError", id |-> NULL]]
            /\ UNCHANGED activityTables
    /\ UNCHANGED orgTables

\* An update that refuses a parent which already lies at level 3 or deeper.
UpdateActivityDepthChecked(p, id, parent_id) ==
    /\ proc[p] = Idle
    /\ LET done(outcome) ==
               [pc |-> "done", op |-> "update_activity", id |-> id,
                parent_id |-> parent_id, outcome |-> outcome]
           grandparent(a) ==
               IF activities[a].parent_id \in DOMAIN activities
               THEN activities[activities[a].parent_id].parent_id
               ELSE NULL
       IN IF id \notin DOMAIN activities
          THEN proc' = [proc EXCEPT ![p] = done("NotFound")] /\ UNCHANGED activities
          ELSE IF parent_id = NULL
          THEN proc' = [proc EXCEPT ![p] = done("ok")] /\ UNCHANGED activities
          ELSE IF parent_id \notin DOMAIN activities
          THEN proc' = [proc EXCEPT ![p] = done("IntegrityError")]
               /\ UNCHANGED activities
          ELSE IF grandparent(parent_id) # NULL
          THEN proc' = [proc EXCEPT ![p] = done("ValueError")]
               /\ UNCHANGED activities
          ELSE /\ activities' = [activities EXCEPT ![id].parent_id = parent_id]
               /\ proc' = [proc EXCEPT ![p] = done("ok")]
    /\ UNCHANGED <<activity_seq, orgTables>>

\* An update that writes the parent_id of the patch even when it is None.
UpdateActivityClearsParent(p, id, parent_id) ==
    /\ proc[p] = Idle
    /\ LET done(outcome) ==
               [pc |-> "done", op |-> "update_activity", id |-> id,
                parent_id |-> parent_id, outcome |-> outcome]
       IN IF id \notin DOMAIN activities
          THEN proc' = [proc EXCEPT ![p] = done("NotFound")] /\ UNCHANGED activities
          ELSE IF parent_id = NULL \/ parent_id \in DOMAIN activities
          THEN /\ activities' = [activities EXCEPT ![id].parent_id = parent_id]
               /\ proc' = [proc EXCEPT ![p] = done("ok")]
          ELSE proc' = [proc EXCEPT ![p] = done("IntegrityError")]
               /\ UNCHANGED activities
    /\ UNCHANGED <<activity_seq, orgTables>>

\* PUT /activities/{id} : ActivityService.update.  parent_id None means
\* "field absent"; any other value is stored after the foreign key check
\* (the row itself is an admissible parent).
UpdateActivity(p, id, parent_id) ==
    /\ proc[p] = Idle
    /\ IF id \notin DOMAIN activities
       THEN /\ proc' = [proc EXCEPT ![p] =
                    [pc |-> "done", op |-> "update_activity", id |-> id,
                     parent_id |-> parent_id, outcome |-> "NotFound"]]
            /\ UNCHANGED activities
       ELSE IF parent_id = NULL
       THEN /\ proc' = [proc EXCEPT ![p] =
                    [pc |-> "done", op |-> "update_activity", id |-> id,
                     parent_id |-> parent_id, outcome |-> "ok"]]
            /\ UNCHANGED activities
       ELSE IF parent_id \in DOMAIN activities
       THEN /\ activities' = [activities EXCEPT ![id].parent_id = parent_id]
            /\ proc' = [proc EXCEPT ![p] =
                    [pc |-> "done", op |-> "update_activity", id |-> id,
                     parent_id |-> parent_id, outcome |-> "ok"]]
       ELSE /\ proc' = [proc EXCEPT ![p] =
                    [pc |-> "done", op |-> "update_activity", id |-> id,
                     parent_id |-> parent_id, outcome |-> "IntegrityError"]]
            /\ UNCHANGED activities
    /\ UNCHANGED <<activity_seq, orgTables>>

\* The rows session.delete(activity) marks deleted: the row and, through
\* the children relationship (cascade="all, delete-orphan"), every row
\* reached by following child edges.
RECURSIVE CascadeClosure(_, _)
CascadeClosure(acts, marked) ==
    LET more == {a \in DOMAIN acts : acts[a].parent_id \in marked} \ marked
    IN IF more = {} THEN marked ELSE CascadeClosure(acts, marked \cup more)

CascadeNone(acts, id) == {id}
Cascade(acts, id) == CascadeClosure(acts, {id})

\* DELETE /activities/{id} : ActivityService.delete.  The association table
\* has a plain foreign key to activities.id, so a marked row that is still
\* referenced there makes the commit fail.  When the marked rows contain a
\* parent_id cycle the unit of work may not find a deletion order; both
\* outcomes are kept.
DeleteActivity(p, id) ==
    /\ proc[p] = Idle
    /\ IF id \notin DOMAIN activities
       THEN /\ proc' = [proc EXCEPT ![p] =
                    [pc |-> "done", op |-> "delete_activity", id |-> id,
                     outcome |-> "NotFound", result |-> FALSE, deleted |-> {}]]
            /\ UNCHANGED activities
       ELSE LET marked == Cascade(activities, id)
                kept == DOMAIN activities \ marked
            IN IF \E oa \in organization_activity : oa[2] \in marked
               THEN /\ proc' = [proc EXCEPT ![p] =
                            [pc |-> "done", op |-> "delete_activity", id |-> id,
                             outcome |-> "IntegrityError", result |-> FALSE,
                             deleted |-> {}]]
                    /\ UNCHANGED activities
               ELSE \/ /\ activities' = [a \in kept |-> activities[a]]
                       /\ proc' = [proc EXCEPT ![p] =
                               [pc |-> "done", op |-> "delete_activity", id |-> id,
                                outcome |-> "ok", result |-> TRUE,
                                deleted |-> marked]]
                    \/ /\ activities[id].parent_id \in marked
                       /\ proc' = [proc EXCEPT ![p] =
                               [pc |-> "done", op |-> "delete_activity", id |-> id,
                                outcome |-> "StorageError", result |-> FALSE,
                                deleted |-> {}]]
                       /\ UNCHANGED activities
    /\ UNCHANGED <<activity_seq, orgTables>>

\* get_all_children_ids / get_activity_tree: the statement is sent; the
\* engine evaluates it on the rows committed at that moment.
CteStart(p, kind, parent_id) ==
    /\ proc[p] = Idle
    /\ kind = "get_all_children_ids" => parent_id # NULL
    /\ LET base == CteBase(activities, parent_id)
       IN proc' = [proc EXCEPT ![p] =
               [pc |-> "cte", op |-> kind, parent_id |-> parent_id,
                snap |-> activities, work |-> base, rows |-> SetToSeq(base),
                odd |-> FALSE]]
    /\ UNCHANGED <<activityTables, orgTables>>

\* One iteration of the recursive term while the working table is not empty;
\* odd tells the iterations apart by their parity.
CteStep(p) ==
    /\ proc[p].pc = "cte"
    /\ proc[p].work # {}
    /\ LET new == CteRecursive(proc[p].snap, proc[p].work)
       IN proc' = [proc EXCEPT ![p].work = new,
                               ![p].rows = CteAppend(proc[p].rows, new),
                               ![p].odd = ~@]
    /\ UNCHANGED <<activityTables, orgTables>>

\* The working table is empty: the rows come back and the method returns.
CteFinish(p) ==
    /\ proc[p].pc = "cte"
    /\ proc[p].work = {}
    /\ LET rows == Unique(proc[p].rows)
       IN proc' = [proc EXCEPT ![p] =
               [pc |-> "done", op |-> proc[p].op, parent_id |-> proc[p].parent_id,
                outcome |-> "ok", snap |-> proc[p].snap,
                result |-> IF proc[p].op = "get_all_children_ids"
                           THEN rows
                           ELSE BuildTree(proc[p].snap, rows, proc[p].parent_id)]]
    /\ UNCHANGED <<activityTables, orgTables>>

\* ------------------------------------------------------ phone reconciliation
\* "111" and "222" are the numbers of the seeded phones.
Numbers == {"111", "222", "555"}
OrgIds == 1..MaxOrgId
\* organization ids a request may carry: an id of the sequence's range, or
\* one beyond it, which no organization ever has.
OrgInputs == {1, 2, MaxOrgId + 1}

\* select(Phone).where(Phone.number == number): the committed rows.
get_by_number(number) == {r \in phones : r.number = number}

\* The constraints of table phones (models.py): number is unique,
\* organization_id references organizations.id.  The unique index is checked
\* as the row is written, the foreign key at the end of the statement.
UniqueNotEnforced(number) == FALSE
UniqueViolation(number) == \E r \in phones : r.number = number

OrgFkViolation(organization_id) ==
    organization_id # NULL /\ organization_id \notin DOMAIN organizations

\* create_or_update, line 57: the lookup by number.
ClaimLookup(p, number, organization_id) ==
    /\ proc[p] = Idle
    /\ LET found == get_by_number(number)
       IN proc' = [proc EXCEPT ![p] =
               [pc |-> IF found # {} THEN "claim_assign" ELSE "claim_insert",
                op |-> "create_or_update", number |-> number,
                organization_id |-> organization_id,
                db_phone |-> found, inserts |-> 0, refetches |-> 0,
                insert_error |-> "none"]]
    /\ UNCHANGED <<activityTables, orgTables>>

\* Lines 59-62 and 77-80: db_phone.organization_id = ...; commit; refresh.
\* The UPDATE is emitted only when the value differs from the loaded one; it
\* addresses the row by primary key.
ClaimAssignNewRow(p) ==
    /\ proc[p].pc = "claim_assign"
    /\ phone_seq <= MaxPhoneId
    /\ phones' = {r \in phones : r.number # proc[p].number} \cup
           {[id |-> phone_seq, number |-> proc[p].number,
             organization_id |-> proc[p].organization_id]}
    /\ phone_seq' = phone_seq + 1
    /\ proc' = [proc EXCEPT ![p] =
            [pc |-> "done", op |-> "create_or_update", number |-> proc[p].number,
             organization_id |-> proc[p].organization_id, outcome |-> "ok",
             id |-> phone_seq, inserts |-> proc[p].inserts,
             refetches |-> proc[p].refetches,
             insert_error |-> proc[p].insert_error]]
    /\ UNCHANGED <<activityTables, organizations, organization_seq,
                   organization_activity>>
ClaimAssign(p) ==
    /\ proc[p].pc = "claim_assign"
    /\ LET row == CHOOSE r \in proc[p].db_phone : TRUE
           org == proc[p].organization_id
           current == {r \in phones : r.id = row.id}
           done(outcome, id) ==
               [pc |-> "done", op |-> "create_or_update", number |-> proc[p].number,
                organization_id |-> org, outcome |-> outcome, id |-> id,
                inserts |-> proc[p].inserts, refetches |-> proc[p].refetches,
                insert_error |-> proc[p].insert_error]
       IN IF current = {}
          THEN /\ proc' = [proc EXCEPT ![p] = done("StaleDataError", NULL)]
               /\ UNCHANGED phones
          ELSE IF row.organization_id = org
          THEN /\ proc' = [proc EXCEPT ![p] = done("ok", row.id)]
               /\ UNCHANGED phones
          ELSE IF OrgFkViolation(org)
          THEN /\ proc' = [proc EXCEPT ![p] = done("IntegrityError", NULL)]
               /\ UNCHANGED phones
          ELSE /\ phones' = (phones \ current) \cup
                      {[id |-> row.id, number |-> r.number, organization_id |-> org] :
                          r \in current}
               /\ proc' = [proc EXCEPT ![p] = done("ok", row.id)]
    /\ UNCHANGED phone_seq
    /\ UNCHANGED <<activityTables, organizations, organization_seq,
                   organization_activity>>

\* Lines 64-74: add; commit.  Any IntegrityError is caught and the session
\* rolled back.
ClaimInsertNoCatch(p) ==
    /\ proc[p].pc = "claim_insert"
    /\ LET number == proc[p].number
           org == proc[p].organization_id
           done(outcome, id) ==
               [pc |-> "done", op |-> "create_or_update", number |-> number,
                organization_id |-> org, outcome |-> outcome, id |-> id,
                inserts |-> proc[p].inserts + 1, refetches |-> 0,
                insert_error |-> "none"]
       IN IF (\E r \in phones : r.number = number) \/ OrgFkViolation(org)
          THEN /\ proc' = [proc EXCEPT ![p] = done("IntegrityError", NULL)]
               /\ UNCHANGED <<phones, phone_seq>>
          ELSE /\ phone_seq <= MaxPhoneId
               /\ phones' = phones \cup
                      {[id |-> phone_seq, number |-> number, organization_id |-> org]}
               /\ phone_seq' = phone_seq + 1
               /\ proc' = [proc EXCEPT ![p] = done("ok", phone_seq)]
    /\ UNCHANGED <<activityTables, organizations, organization_seq,
                   organization_activity>>
ClaimInsert(p) ==
    /\ proc[p].pc = "claim_insert"
    /\ LET number == proc[p].number
           org == proc[p].organization_id
       IN IF UniqueViolation(number) \/ OrgFkViolation(org)
          THEN /\ proc' = [proc EXCEPT ![p].pc = "claim_refetch",
                                       ![p].inserts = @ + 1,
                                       ![p].insert_error =
                                           IF UniqueViolation(number)
                                           THEN "UniqueViolation"
                                           ELSE "ForeignKeyViolation"]
               /\ UNCHANGED <<phones, phone_seq>>
          ELSE /\ phone_seq <= MaxPhoneId
               /\ phones' = phones \cup
                      {[id |-> phone_seq, number |-> number, organization_id |-> org]}
               /\ phone_seq' = phone_seq + 1
               /\ proc' = [proc EXCEPT ![p] =
                       [pc |-> "done", op |-> "create_or_update", number |-> number,
                        organization_id |-> org, outcome |-> "ok", id |-> phone_seq,
                        inserts |-> proc[p].inserts + 1, refetches |-> 0,
                        insert_error |-> "none"]]
    /\ UNCHANGED <<activityTables, organizations, organization_seq,
                   organization_activity>>

\* Lines 75-85: the re-fetch after the rollback.
ClaimRefetch(p) ==
    /\ proc[p].pc = "claim_refetch"
    /\ LET found == get_by_number(proc[p].number)
       IN IF found # {}
          THEN proc' = [proc EXCEPT ![p].pc = "claim_assign",
                                    ![p].db_phone = found,
                                    ![p].refetches = @ + 1]
          ELSE proc' = [proc EXCEPT ![p] =
                   [pc |-> "done", op |-> "create_or_update",
                    number |-> proc[p].number,
                    organization_id |-> proc[p].organization_id,
                    outcome |-> "PhoneRaceConditionError", id |-> NULL,
                    inserts |-> proc[p].inserts, refetches |-> proc[p].refetches + 1,
                    insert_error |-> proc[p].insert_error]]
    /\ UNCHANGED <<activityTables, orgTables>>

\* DELETE /phones/{id} : PhoneService.delete, the lookup ...
PhoneDeleteGet(p, phone_id) ==
    /\ proc[p] = Idle
    /\ IF \E r \in phones : r.id = phone_id
       THEN proc' = [proc EXCEPT ![p] =
                [pc |-> "phone_delete", op |-> "delete_phone", id |-> phone_id]]
       ELSE proc' = [proc EXCEPT ![p] =
                [pc |-> "done", op |-> "delete_phone", id |-> phone_id,
                 outcome |-> "NotFound", result |-> FALSE]]
    /\ UNCHANGED <<activityTables, orgTables>>

\* ... and delete; commit.  A DELETE that matches no row is not an error.
PhoneDeleteCommit(p) ==
    /\ proc[p].pc = "phone_delete"
    /\ phones' = {r \in phones : r.id # proc[p].id}
    /\ proc' = [proc EXCEPT ![p] =
            [pc |-> "done", op |-> "delete_phone", id |-> proc[p].id,
             outcome |-> "ok", result |-> TRUE]]
    /\ UNCHANGED <<activityTables, organizations, organization_seq, phone_seq,
                   organization_activity>>

\* ------------------------------------------------- organization orchestrator
\* Table buildings is filled by the seeding script and never written by a
\* request handler.
Buildings == {1, 2}
BuildingInputs == {1, 2, 3}
OrgNames == {"n1", "n2"}
\* phone_numbers of a request: a list, possibly with a repeated number.
NumberLists ==
    {<<>>, <<"555">>, <<"111">>, <<"555", "111">>, <<"111", "222">>,
     <<"555", "555">>}
\* activity_ids of a request; MaxActivityId + 1 is the id of no activity.
ActivityIdInputs == {{}, {1}, {2, 3}, {1, MaxActivityId + 1}}

\* An Optional field of a patch other than an id: <<>> when the field is
\* None (absent), <<v>> when it carries v.
Absent == <<>>
Given(v) == <<v>>
OptionOf(S) == {Absent} \cup {Given(v) : v \in S}

AcceptsDuplicates(v) == TRUE
\* schemas.phone_numbers_must_be_unique
phone_numbers_must_be_unique(v) == Len(v) = Cardinality(Range(v))

\* get_phones_by_numbers: no statement for an empty list.
get_phones_by_numbers(numbers) ==
    IF numbers = <<>> THEN {} ELSE {r \in phones : r.number \in Range(numbers)}

\* asyncio.gather of activity_service.get, None dropped.
ResolveAll(activity_ids) == activity_ids
ResolveActivities(activity_ids) == activity_ids \cap DOMAIN activities

\* Rows for the new phones, numbered from the phones id sequence in list order.
NewPhoneRows(numbers, new_numbers, organization_id) ==
    LET news == SelectSeq(numbers, LAMBDA n : n \in new_numbers)
    IN {[id |-> phone_seq + i - 1, number |-> news[i],
         organization_id |-> organization_id] : i \in DOMAIN news}

\* The result of a request that returns no organization.
NoOrganization == [name |-> "", building_id |-> NULL, phones |-> {}, activities |-> {}]

\* POST /organizations/ : validation of the body, then create() up to the
\* phone lookup (lines 39-45).
OrgCreateStart(p, phone_numbers) ==
    /\ proc[p] = Idle
    /\ IF ~phone_numbers_must_be_unique(phone_numbers)
       THEN proc' = [proc EXCEPT ![p] =
                [pc |-> "done", op |-> "create_organization",
                 outcome |-> "ValueError", id |-> NULL, result |-> NoOrganization]]
       ELSE proc' = [proc EXCEPT ![p] =
                [pc |-> "org_create_commit", op |-> "create_organization",
                 phone_numbers |-> phone_numbers,
                 found |-> get_phones_by_numbers(phone_numbers)]]
    /\ UNCHANGED <<activityTables, orgTables>>

\* What the flush of create() writes, as a whole: the tables after it.  The
\* phones found by the lookup are moved to the new organization, the other
\* numbers are inserted, one association row is added per resolved activity.
OrgCreateWritesRowOnly(p, name, building_id, resolved) ==
    [organizations |->
        (organization_seq :> [name |-> name, building_id |-> building_id])
            @@ organizations,
     phones |-> phones,
     organization_activity |-> organization_activity]
OrgCreateWrites(p, name, building_id, resolved) ==
    LET id == organization_seq
        found == proc[p].found
        new_numbers == Range(proc[p].phone_numbers) \ {r.number : r \in found}
        moved == {r \in phones : r.id \in {f.id : f \in found}}
    IN [organizations |->
           (id :> [name |-> name, building_id |-> building_id]) @@ organizations,
        phones |->
           (phones \ moved)
           \cup {[id |-> r.id, number |-> r.number, organization_id |-> id] :
                    r \in moved}
           \cup NewPhoneRows(proc[p].phone_numbers, new_numbers, id),
        organization_activity |->
           organization_activity \cup {<<id, a>> : a \in resolved}]

\* The error, if any, the flush of create() runs into: the building must
\* exist, a phone found by the lookup must still be there to be updated, a
\* number to insert must still be free.
OrgCreateErrorIgnoresRace(p, building_id) ==
    LET found == proc[p].found
    IN IF building_id \notin Buildings THEN "IntegrityError"
       ELSE IF \E f \in found : ~\E r \in phones : r.id = f.id THEN "StaleDataError"
       ELSE "none"
OrgCreateError(p, building_id) ==
    LET found == proc[p].found
        new_numbers == Range(proc[p].phone_numbers) \ {r.number : r \in found}
    IN IF building_id \notin Buildings THEN "IntegrityError"
       ELSE IF \E f \in found : ~\E r \in phones : r.id = f.id THEN "StaleDataError"
       ELSE IF \E n \in new_numbers : UniqueViolation(n) THEN "IntegrityError"
       ELSE "none"

\* create(), lines 46-59: the activity lookups, then add; commit; refresh.
\* The writes are one transaction.  The activity lookups are the last reads
\* before the flush and are taken with it.
OrgCreateCommit(p, name, building_id, activity_ids) ==
    /\ proc[p].pc = "org_create_commit"
    /\ LET error == OrgCreateError(p, building_id)
           new_numbers == Range(proc[p].phone_numbers) \
                              {r.number : r \in proc[p].found}
           writes == OrgCreateWrites(p, name, building_id,
                                     ResolveActivities(activity_ids))
           done(outcome, id, result) ==
               [pc |-> "done", op |-> "create_organization",
                outcome |-> outcome, id |-> id, result |-> result]
       IN IF error # "none"
          THEN /\ proc' = [proc EXCEPT ![p] = done(error, NULL, NoOrganization)]
               /\ UNCHANGED orgTables
          ELSE /\ organization_seq <= MaxOrgId
               /\ phone_seq + Cardinality(new_numbers) - 1 <= MaxPhoneId
               /\ organizations' = writes.organizations
               /\ phones' = writes.phones
               /\ organization_activity' = writes.organization_activity
               /\ organization_seq' = organization_seq + 1
               /\ phone_seq' = phone_seq + Cardinality(new_numbers)
               /\ proc' = [proc EXCEPT ![p] =
                       done("ok", organization_seq,
                            [name |-> name, building_id |-> building_id,
                             phones |-> Range(proc[p].phone_numbers),
                             activities |-> ResolveActivities(activity_ids)])]
    /\ UNCHANGED activityTables

\* PUT /organizations/{id} : validation of the body, then update() up to
\* the phone lookup (lines 152-161).  get() loads the row with its phones
\* and activities (selectin); the phone lookup follows it at once and is
\* taken with it.
OrgUpdateGet(p, id, phone_numbers) ==
    /\ proc[p] = Idle
    /\ IF phone_numbers # Absent /\ ~phone_numbers_must_be_unique(phone_numbers[1])
       THEN proc' = [proc EXCEPT ![p] =
                [pc |-> "done", op |-> "update_organization",
                 outcome |-> "ValueError", id |-> id, result |-> NoOrganization]]
       ELSE IF id \notin DOMAIN organizations
       THEN proc' = [proc EXCEPT ![p] =
                [pc |-> "done", op |-> "update_organization",
                 outcome |-> "NotFound", id |-> id, result |-> NoOrganization]]
       ELSE proc' = [proc EXCEPT ![p] =
                [pc |-> "org_update_commit",
                 op |-> "update_organization", id |-> id,
                 phone_numbers |-> phone_numbers,
                 db_org |-> organizations[id],
                 old_phones |-> {r \in phones : r.organization_id = id},
                 old_activities |->
                     {oa[2] : oa \in {x \in organization_activity : x[1] = id}},
                 found |-> IF phone_numbers = Absent THEN {}
                           ELSE get_phones_by_numbers(phone_numbers[1])]]
    /\ UNCHANGED <<activityTables, orgTables>>

\* The unit of work of update(): what changed against the loaded state.
\* Phones no longer in the collection are orphans and are deleted; phones
\* found under another owner get this organization; absent numbers are
\* inserted; the association rows follow the new activities list.
OrgUpdatePlanMerge(p, name, building_id, activity_ids) ==
    LET old == proc[p].old_phones
        found == proc[p].found
        patch_phones == proc[p].phone_numbers # Absent
        resolved == IF activity_ids # Absent
                    THEN ResolveActivities(activity_ids[1]) ELSE {}
    IN [row |-> [name |-> IF name = Absent THEN proc[p].db_org.name ELSE name[1],
                 building_id |-> IF building_id = NULL
                                 THEN proc[p].db_org.building_id ELSE building_id],
        removed |-> {},
        added |-> IF patch_phones
                  THEN {r.id : r \in found} \ {r.id : r \in old} ELSE {},
        new_numbers |-> IF patch_phones
                        THEN Range(proc[p].phone_numbers[1]) \ {r.number : r \in found}
                        ELSE {},
        removed_acts |-> {},
        added_acts |-> resolved \ proc[p].old_activities]
OrgUpdatePlan(p, name, building_id, activity_ids) ==
    LET id == proc[p].id
        old == proc[p].old_phones
        found == proc[p].found
        patch_phones == proc[p].phone_numbers # Absent
        patch_acts == activity_ids # Absent
        resolved == IF patch_acts THEN ResolveActivities(activity_ids[1]) ELSE {}
    IN [row |-> [name |-> IF name = Absent THEN proc[p].db_org.name ELSE name[1],
                 building_id |-> IF building_id = NULL
                                 THEN proc[p].db_org.building_id ELSE building_id],
        removed |-> IF patch_phones
                    THEN {r.id : r \in old} \ {r.id : r \in found} ELSE {},
        added |-> IF patch_phones
                  THEN {r.id : r \in found} \ {r.id : r \in old} ELSE {},
        new_numbers |-> IF patch_phones
                        THEN Range(proc[p].phone_numbers[1]) \ {r.number : r \in found}
                        ELSE {},
        removed_acts |-> IF patch_acts
                         THEN proc[p].old_activities \ resolved ELSE {},
        added_acts |-> IF patch_acts
                       THEN resolved \ proc[p].old_activities ELSE {}]

\* db_org as update() holds it when it commits: the fields it assigned, the
\* loaded ones otherwise.
OrgUpdateObject(p, plan, activity_ids) ==
    [name |-> plan.row.name,
     building_id |-> plan.row.building_id,
     phones |-> IF proc[p].phone_numbers = Absent
                THEN {r.number : r \in proc[p].old_phones}
                ELSE Range(proc[p].phone_numbers[1]),
     activities |-> IF activity_ids = Absent THEN proc[p].old_activities
                    ELSE ResolveActivities(activity_ids[1])]

\* The error, if any, the flush of update() runs into.  An UPDATE or an
\* association DELETE that matches no row is a StaleDataError; a DELETE of
\* an orphaned phone that matches no row is not an error.
OrgUpdateError(p, plan) ==
    LET id == proc[p].id
        exists == id \in DOMAIN organizations
    IN IF plan.row # proc[p].db_org /\ ~exists THEN "StaleDataError"
       ELSE IF plan.row.building_id # proc[p].db_org.building_id
               /\ plan.row.building_id \notin Buildings THEN "IntegrityError"
       ELSE IF \E i \in plan.added : ~\E r \in phones : r.id = i THEN "StaleDataError"
       ELSE IF (plan.added # {} \/ plan.new_numbers # {}) /\ ~exists
       THEN "IntegrityError"
       ELSE IF \E n \in plan.new_numbers : UniqueViolation(n) THEN "IntegrityError"
       ELSE IF \E a \in plan.removed_acts : <<id, a>> \notin organization_activity
       THEN "StaleDataError"
       ELSE IF plan.added_acts # {} /\ ~exists THEN "IntegrityError"
       ELSE "none"

\* The UPDATE of the organization row sets the columns whose value differs
\* from the loaded one and leaves the others as they are in the table.
ChangedColumns(p, plan, row) ==
    [name |-> IF plan.row.name # proc[p].db_org.name
              THEN plan.row.name ELSE row.name,
     building_id |-> IF plan.row.building_id # proc[p].db_org.building_id
                     THEN plan.row.building_id ELSE row.building_id]

\* The tables after the flush of update().
OrgUpdateWritesKeepOrphans(p, plan) ==
    LET id == proc[p].id
    IN [organizations |->
           IF id \in DOMAIN organizations
           THEN [organizations EXCEPT ![id] = ChangedColumns(p, plan, @)]
           ELSE organizations,
        phones |->
           {r \in phones : r.id \notin (plan.removed \cup plan.added)}
           \cup {[id |-> r.id, number |-> r.number, organization_id |-> NULL] :
                    r \in {x \in phones : x.id \in plan.removed}}
           \cup {[id |-> r.id, number |-> r.number, organization_id |-> id] :
                    r \in {x \in phones : x.id \in plan.added}}
           \cup NewPhoneRows(IF proc[p].phone_numbers = Absent THEN <<>>
                             ELSE proc[p].phone_numbers[1], plan.new_numbers, id),
        organization_activity |->
           (organization_activity \ {<<id, a>> : a \in plan.removed_acts})
           \cup {<<id, a>> : a \in plan.added_acts}]
OrgUpdateWrites(p, plan) ==
    LET id == proc[p].id
    IN [organizations |->
           IF id \in DOMAIN organizations
           THEN [organizations EXCEPT ![id] = ChangedColumns(p, plan, @)]
           ELSE organizations,
        phones |->
           {r \in phones : r.id \notin (plan.removed \cup plan.added)}
           \cup {[id |-> r.id, number |-> r.number, organization_id |-> id] :
                    r \in {x \in phones : x.id \in plan.added}}
           \cup NewPhoneRows(IF proc[p].phone_numbers = Absent THEN <<>>
                             ELSE proc[p].phone_numbers[1], plan.new_numbers, id),
        organization_activity |->
           (organization_activity \ {<<id, a>> : a \in plan.removed_acts})
           \cup {<<id, a>> : a \in plan.added_acts}]

\* update(), lines 156-177: the field assignments, the activity lookups,
\* then commit; refresh.  The writes are one transaction; the refresh of a
\* row that is gone fails after the commit.
OrgUpdateCommit(p, name, building_id, activity_ids) ==
    /\ proc[p].pc = "org_update_commit"
    /\ LET plan == OrgUpdatePlan(p, name, building_id, activity_ids)
           error == OrgUpdateError(p, plan)
           writes == OrgUpdateWrites(p, plan)
           done(outcome, result) ==
               [pc |-> "done", op |-> "update_organization",
                outcome |-> outcome, id |-> proc[p].id, result |-> result]
       IN IF error # "none"
          THEN /\ proc' = [proc EXCEPT ![p] = done(error, NoOrganization)]
               /\ UNCHANGED orgTables
          ELSE /\ phone_seq + Cardinality(plan.new_numbers) - 1 <= MaxPhoneId
               /\ organizations' = writes.organizations
               /\ phones' = writes.phones
               /\ organization_activity' = writes.organization_activity
               /\ phone_seq' = phone_seq + Cardinality(plan.new_numbers)
               /\ UNCHANGED organization_seq
               /\ proc' = [proc EXCEPT ![p] =
                       done(IF proc[p].id \in DOMAIN organizations
                            THEN "ok" ELSE "InvalidRequestError",
                            OrgUpdateObject(p, plan, activity_ids))]
    /\ UNCHANGED activityTables

\* DELETE /organizations/{id} : delete(), the lookup with the selectin loads
OrgDeleteGet(p, id) ==
    /\ proc[p] = Idle
    /\ IF id \notin DOMAIN organizations
       THEN proc' = [proc EXCEPT ![p] =
                [pc |-> "done", op |-> "delete_organization",
                 outcome |-> "NotFound", id |-> id]]
       ELSE proc' = [proc EXCEPT ![p] =
                [pc |-> "org_delete", op |-> "delete_organization", id |-> id,
                 old_phones |-> {r.id : r \in {x \in phones : x.organization_id = id}},
                 old_activities |->
                     {oa[2] : oa \in {x \in organization_activity : x[1] = id}}]]
    /\ UNCHANGED <<activityTables, orgTables>>

\* ... and delete; commit: the loaded association rows and phones go with
\* the organization (cascade="all, delete-orphan"); a phone or association
\* row attached since the load still references the organization and the
\* DELETE of its row is rejected.
OrgDeleteCommit(p) ==
    /\ proc[p].pc = "org_delete"
    /\ LET id == proc[p].id
           done(outcome) ==
               [pc |-> "done", op |-> "delete_organization",
                outcome |-> outcome, id |-> id]
           phones_left == {r \in phones : r.id \notin proc[p].old_phones}
           assoc_left == organization_activity \
                             {<<id, a>> : a \in proc[p].old_activities}
       IN IF \E a \in proc[p].old_activities : <<id, a>> \notin organization_activity
          THEN /\ proc' = [proc EXCEPT ![p] = done("StaleDataError")]
               /\ UNCHANGED <<organizations, phones, organization_activity>>
          ELSE IF \/ \E r \in phones_left : r.organization_id = id
                  \/ \E oa \in assoc_left : oa[1] = id
          THEN /\ proc' = [proc EXCEPT ![p] = done("IntegrityError")]
               /\ UNCHANGED <<organizations, phones, organization_activity>>
          ELSE /\ organizations' =
                      [o \in DOMAIN organizations \ {id} |-> organizations[o]]
               /\ phones' = phones_left
               /\ organization_activity' = assoc_left
               /\ proc' = [proc EXCEPT ![p] = done("ok")]
    /\ UNCHANGED <<activityTables, organization_seq, phone_seq>>

\* ------------------------------------------------ organization queries
\* GET /organizations/by_activity: get_by_activity() looks the activity up
\* (lines 123-125) and sends the descendants query of get_all_children_ids.
GetByActivityStart(p, activity_id) ==
    /\ proc[p] = Idle
    /\ IF activity_id \notin DOMAIN activities
       THEN proc' = [proc EXCEPT ![p] =
                [pc |-> "done", op |-> "get_by_activity",
                 activity_id |-> activity_id, outcome |-> "ok", result |-> <<>>]]
       ELSE LET base == CteBase(activities, activity_id)
            IN proc' = [proc EXCEPT ![p] =
                   [pc |-> "get_by_activity", op |-> "get_by_activity",
                    activity_id |-> activity_id, snap |-> activities,
                    work |-> base, rows |-> SetToSeq(base), odd |-> FALSE]]
    /\ UNCHANGED <<activityTables, orgTables>>

\* One iteration of the recursive term of the descendants query.
GetByActivityStep(p) ==
    /\ proc[p].pc = "get_by_activity"
    /\ proc[p].work # {}
    /\ LET new == CteRecursive(proc[p].snap, proc[p].work)
       IN proc' = [proc EXCEPT ![p].work = new,
                               ![p].rows = CteAppend(proc[p].rows, new),
                               ![p].odd = ~@]
    /\ UNCHANGED <<activityTables, orgTables>>

\* select(Organization).join(Organization.activities)
\*   .where(Activity.id.in_(ids)).distinct(): one row per association row of
\* an existing activity among ids, listed by organization, then DISTINCT.
JoinOrganizations(ids) ==
    LET width == MaxActivityId + 2
        hits == {oa \in organization_activity :
                    /\ oa[1] \in DOMAIN organizations
                    /\ oa[2] \in DOMAIN activities
                    /\ oa[2] \in ids}
        keys == SetToSeq({oa[1] * width + oa[2] : oa \in hits})
    IN [i \in DOMAIN keys |-> keys[i] \div width]

\* The descendants came back: lines 126-135, the organizations query.
GetByActivityFinish(p) ==
    /\ proc[p].pc = "get_by_activity"
    /\ proc[p].work = {}
    /\ LET all_activity_ids ==
               {proc[p].activity_id} \cup Range(Unique(proc[p].rows))
       IN proc' = [proc EXCEPT ![p] =
               [pc |-> "done", op |-> "get_by_activity",
                activity_id |-> proc[p].activity_id, outcome |-> "ok",
                result |-> Unique(JoinOrganizations(all_activity_ids))]]
    /\ UNCHANGED <<activityTables, orgTables>>

\* Geography.  Latitudes and longitudes are whole degrees; all buildings and
\* all valid centers lie on the meridian 0, where the haversine distance is
\* the arc of the latitude difference.  Lengths are in millimetres so that
\* the mile factor 1609.344 stays integral.
MetersPerDegree == 111195

BuildingLatitude == (1 :> 0) @@ (2 :> 2)

Abs(x) == IF x < 0 THEN -x ELSE x

haversine(lat1, lat2) == MetersPerDegree * 1000 * Abs(lat2 - lat1)

to_meters(unit, value) ==
    IF unit = "m" THEN value * 1000
    ELSE IF unit = "km" THEN value * 1000000
    ELSE value * 1609344

Latitudes == {0, 1, 91}
Longitudes == {0, 181}
RadiusInputs ==
    {<<-1, "km">>, <<0, "m">>, <<1, "m">>, <<111195, "m">>, <<111, "km">>,
     <<112, "km">>, <<70, "mi">>, <<139, "mi">>}

NearbyStrict(latitude, radius_in_m) ==
    {b \in Buildings : haversine(latitude, BuildingLatitude[b]) < radius_in_m}
Nearby(latitude, radius_in_m) ==
    {b \in Buildings : haversine(latitude, BuildingLatitude[b]) <= radius_in_m}

\* POST /organizations/by_radius/ : the validators of GeoSearchRadius, then
\* get_by_radius().
GetByRadius(p, latitude, longitude, radius) ==
    /\ proc[p] = Idle
    /\ LET done(outcome, result) ==
               [pc |-> "done", op |-> "get_by_radius", latitude |-> latitude,
                longitude |-> longitude, radius |-> radius,
                outcome |-> outcome, result |-> result]
           valid == /\ -90 <= latitude /\ latitude <= 90
                    /\ -180 <= longitude /\ longitude <= 180
                    /\ radius[1] > 0
           nearby_building_ids == Nearby(latitude, to_meters(radius[2], radius[1]))
       IN IF ~valid
          THEN proc' = [proc EXCEPT ![p] = done("ValueError", <<>>)]
          ELSE proc' = [proc EXCEPT ![p] =
                   done("ok", SetToSeq({o \in DOMAIN organizations :
                           organizations[o].building_id \in nearby_building_ids}))]
    /\ UNCHANGED <<activityTables, orgTables>>

\* The response has been sent; the session is free for the next request.
Return(p) ==
    /\ proc[p].pc = "done"
    /\ proc' = [proc EXCEPT ![p] = Idle]
    /\ UNCHANGED <<activityTables, orgTables>>

\* ------------------------------------------------------------------ Init
\* The empty database.
Init ==
    /\ activities = <<>>
    /\ activity_seq = 1
    /\ organizations = <<>>
    /\ organization_seq = 1
    /\ phones = {}
    /\ phone_seq = 1
    /\ organization_activity = {}
    /\ proc = [p \in Procs |-> Idle]
    /\ requests = 0

\* The database as scripts/populate_db.py leaves it: three activities (the
\* second a child of the first), two organizations with their activities,
\* one phone each.
InitSeeded ==
    /\ activities = (1 :> [parent_id |-> NULL]) @@ (2 :> [parent_id |-> 1])
                        @@ (3 :> [parent_id |-> NULL])
    /\ activity_seq = 4
    /\ organizations = (1 :> [name |-> "n1", building_id |-> 1])
                           @@ (2 :> [name |-> "n2", building_id |-> 2])
    /\ organization_seq = 3
    /\ phones = {[id |-> 1, number |-> "111", organization_id |-> 1],
                 [id |-> 2, number |-> "222", organization_id |-> 2]}
    /\ phone_seq = 3
    /\ organization_activity = {<<1, 1>>, <<2, 2>>, <<2, 3>>}
    /\ proc = [p \in Procs |-> Idle]
    /\ requests = 0

\* ------------------------------------------- the activity hierarchy alone
\* Requests on the activity endpoints, served one at a time by session 1.
NextActivity ==
    /\ \/ \E parent_id \in ParentInputs : CreateActivity(1, parent_id)
       \/ \E id \in ActivityIds, parent_id \in ParentInputs :
              UpdateActivity(1, id, parent_id)
       \/ \E id \in ActivityIds : DeleteActivity(1, id)
       \/ \E kind \in {"get_all_children_ids", "get_activity_tree"},
             parent_id \in ParentInputs : CteStart(1, kind, parent_id)
       \/ CteStep(1)
       \/ CteFinish(1)
       \/ Return(1)
    /\ UNCHANGED requests

SpecActivity == Init /\ [][NextActivity]_vars

\* The engine keeps evaluating a statement it was sent.
SpecActivityFair ==
    /\ SpecActivity
    /\ WF_vars(CteStep(1) /\ UNCHANGED requests)
    /\ WF_vars(CteFinish(1) /\ UNCHANGED requests)

\* ------------------------------------------------ the concurrent directory
\* Sessions serve requests concurrently on the seeded database; a step is
\* one statement batch of one session (suspension happens only at storage
\* calls).
Sessions == {1, 2}

Accept(p) ==
    \/ \E number \in Numbers, organization_id \in OrgInputs :
           ClaimLookup(p, number, organization_id)
    \/ \E phone_id \in 1..MaxPhoneId : PhoneDeleteGet(p, phone_id)
    \/ \E phone_numbers \in NumberLists : OrgCreateStart(p, phone_numbers)
    \/ \E id \in OrgIds, phone_numbers \in OptionOf(NumberLists) :
           OrgUpdateGet(p, id, phone_numbers)
    \/ \E id \in OrgIds : OrgDeleteGet(p, id)
    \/ CreateActivity(p, NULL)
    \/ \E id \in ActivityIds : DeleteActivity(p, id)

Continue(p) ==
    \/ ClaimAssign(p)
    \/ ClaimInsert(p)
    \/ ClaimRefetch(p)
    \/ PhoneDeleteCommit(p)
    \/ \E name \in OrgNames, building_id \in BuildingInputs,
          activity_ids \in ActivityIdInputs :
           OrgCreateCommit(p, name, building_id, activity_ids)
    \/ \E name \in OptionOf(OrgNames), building_id \in BuildingInputs \cup {NULL},
          activity_ids \in OptionOf(ActivityIdInputs) :
           OrgUpdateCommit(p, name, building_id, activity_ids)
    \/ OrgDeleteCommit(p)
    \/ Return(p)

Next ==
    \E p \in Sessions :
        \/ requests < MaxRequests /\ Accept(p) /\ requests' = requests + 1
        \/ Continue(p) /\ UNCHANGED requests

Spec == InitSeeded /\ [][Next]_vars



\* ------------------------------------------------ one request at a time
\* Session 1 serves requests one after the other on the seeded database.
MaxSeqRequests == 2

AcceptSeq ==
    \/ Accept(1)
    \/ \E id \in ActivityIds, parent_id \in ParentInputs :
           UpdateActivity(1, id, parent_id)
    \/ \E latitude \in Latitudes, longitude \in Longitudes,
          radius \in RadiusInputs :
           GetByRadius(1, latitude, longitude, radius)

NextSeq ==
    \/ requests < MaxSeqRequests /\ AcceptSeq /\ requests' = requests + 1
    \/ Continue(1) /\ UNCHANGED requests

SpecSeq == InitSeeded /\ [][NextSeq]_vars

\* ------------------------------------------- organizations by activity
\* Session 1 reshapes the seeded hierarchy and asks for the organizations of
\* an activity, one request at a time.
NextByActivity ==
    /\ \/ CreateActivity(1, NULL)
       \/ \E id \in ActivityIds, parent_id \in ParentInputs :
              UpdateActivity(1, id, parent_id)
       \/ \E activity_id \in ActivityIds : GetByActivityStart(1, activity_id)
       \/ GetByActivityStep(1)
       \/ GetByActivityFinish(1)
       \/ Return(1)
    /\ UNCHANGED requests

SpecByActivity == InitSeeded /\ [][NextByActivity]_vars

\* The engine keeps evaluating a statement it was sent.
SpecByActivityFair ==
    /\ SpecByActivity
    /\ WF_vars(GetByActivityStep(1) /\ UNCHANGED requests)
    /\ WF_vars(GetByActivityFinish(1) /\ UNCHANGED requests)

\* ------------------------------------------------- phone reconciliation alone
\* Every session makes one create_or_update call on the seeded database;
\* the calls overlap freely.  No phone or organization is deleted.
NextClaim ==
    /\ \E p \in Procs :
           \/ \E number \in Numbers, organization_id \in OrgInputs :
                  ClaimLookup(p, number, organization_id)
           \/ ClaimAssign(p)
           \/ ClaimInsert(p)
           \/ ClaimRefetch(p)
    /\ UNCHANGED requests

SpecClaim == InitSeeded /\ [][NextClaim]_vars

\* A call in progress is resumed when its storage call completes.
SpecClaimFair ==
    /\ SpecClaim
    /\ \A p \in Procs :
           WF_vars((ClaimAssign(p) \/ ClaimInsert(p) \/ ClaimRefetch(p))
                   /\ UNCHANGED requests)

\* create_or_update calls one after the other, by one session.
NextClaimSeq ==
    /\ \/ \E number \in Numbers, organization_id \in OrgInputs :
              ClaimLookup(1, number, organization_id)
       \/ ClaimAssign(1)
       \/ ClaimInsert(1)
       \/ ClaimRefetch(1)
       \/ Return(1)
    /\ UNCHANGED requests

SpecClaimSeq == InitSeeded /\ [][NextClaimSeq]_vars


\* ===================================================== activity properties
\* The ids reached from a by following parent_id one or more times.
RECURSIVE AncestorsFrom(_, _, _)
AncestorsFrom(acts, seen, frontier) ==
    LET up == {acts[x].parent_id : x \in frontier \cap DOMAIN acts} \ ({NULL} \cup seen)
    IN IF up = {} THEN seen ELSE AncestorsFrom(acts, seen \cup up, up)

Ancestors(acts, a) == AncestorsFrom(acts, {}, {a})

\* The activities reachable from r by following child edges one or more times.
Descendants(acts, r) == {a \in DOMAIN acts : r \in Ancestors(acts, a)}

\* Every parent_id is null or names a stored activity, and no activity is
\* its own ancestor.
IsForest(acts) ==
    \A a \in DOMAIN acts :
        /\ acts[a].parent_id = NULL \/ acts[a].parent_id \in DOMAIN acts
        /\ a \notin Ancestors(acts, a)

\* Level of an activity of a forest: 1 for a root, one more than its parent's
\* otherwise.
Level(acts, a) == 1 + Cardinality(Ancestors(acts, a))

\* All node records of a list of trees.
RECURSIVE NodesOf(_)
NodesOf(tree) ==
    IF tree = <<>> THEN {}
    ELSE UNION {{tree[i]} \cup NodesOf(tree[i].children) : i \in DOMAIN tree}

\* The ids of a list of trees, in pre-order, one entry per node.
RECURSIVE Flatten(_)
Flatten(tree) ==
    IF tree = <<>> THEN <<>>
    ELSE <<Head(tree).id>> \o Flatten(Head(tree).children) \o Flatten(Tail(tree))

Ids(tree) == {tree[i].id : i \in DOMAIN tree}

\* Ids handed out so far whose row is gone.
DeletedIds == (1..(activity_seq - 1)) \ DOMAIN activities

\* C1: creating an activity under an existing parent of a forest fails with
\* DepthExceeded and changes nothing when the parent's level is 3 or more,
\* and otherwise inserts exactly one activity whose parent is that parent.
C1_DepthRule ==
    [][\A parent_id \in ActivityIds :
          (/\ CreateActivity(1, parent_id)
           /\ parent_id \in DOMAIN activities
           /\ IsForest(activities))
          => IF Level(activities, parent_id) >= 3
             THEN /\ proc'[1].outcome = "DepthExceeded"
                  /\ activities' = activities
             ELSE /\ proc'[1].outcome = "ok"
                  /\ DOMAIN activities' = DOMAIN activities \cup {activity_seq}
                  /\ activities'[activity_seq].parent_id = parent_id
                  /\ \A a \in DOMAIN activities : activities'[a] = activities[a]]_vars

C10_DeleteCascades ==
    /\ [][\A id \in ActivityIds :
             DeleteActivity(1, id)
             => IF id \in DOMAIN activities
                THEN proc'[1].result = TRUE
                     => /\ DOMAIN activities' =
                               DOMAIN activities \ ({id} \cup Descendants(activities, id))
                        /\ \A a \in DOMAIN activities' : activities'[a] = activities[a]
                ELSE /\ proc'[1].result = FALSE
                     /\ activities' = activities]_vars
    /\ []((proc[1].pc = "done" /\ proc[1].op = "get_activity_tree")
          => Range(Flatten(proc[1].result)) \cap DeletedIds = {})

\* A delete removed an activity together with a child and a grandchild.
C10_Witness ==
    /\ proc[1].pc = "done"
    /\ proc[1].op = "delete_activity"
    /\ proc[1].result = TRUE
    /\ Cardinality(proc[1].deleted) >= 3
    /\ proc[1].deleted \cap DOMAIN activities = {}
    /\ activities # <<>>


\* ======================================================== phone properties
IsClaim(p) == proc[p].pc \in {"claim_assign", "claim_insert", "claim_refetch"}

ClaimDone(p) == proc[p].pc = "done" /\ proc[p].op = "create_or_update"

RowsOf(rows, number) == {r \in rows : r.number = number}

\* The sessions whose finished call named this number and a stored
\* organization.
Callers(number) ==
    {p \in Procs : /\ ClaimDone(p)
                   /\ proc[p].number = number
                   /\ proc[p].organization_id \in DOMAIN organizations}

\* C2: when calls of create_or_update overlap and nothing is deleted, every
\* call naming a stored organization ends returning a phone and no
\* integrity error reaches its caller, no call makes more than one insert
\* attempt or more than one re-fetch, and once all calls are over a number
\* that was called for has exactly one row, owned by an organization one of
\* the callers asked for.
C2_ConcurrentClaims ==
    /\ [](\A p \in Procs :
             /\ IsClaim(p) => proc[p].inserts <= 1 /\ proc[p].refetches <= 1
             /\ ClaimDone(p) => proc[p].inserts <= 1 /\ proc[p].refetches <= 1
             /\ (ClaimDone(p) /\ proc[p].organization_id \in DOMAIN organizations)
                => /\ proc[p].outcome = "ok"
                   /\ \E r \in phones : r.id = proc[p].id /\ r.number = proc[p].number)
    /\ []((\A p \in Procs : ~IsClaim(p))
          => \A number \in Numbers :
                 Callers(number) # {}
                 => /\ Cardinality(RowsOf(phones, number)) = 1
                    /\ \A r \in RowsOf(phones, number) :
                           \E p \in Callers(number) :
                               r.organization_id = proc[p].organization_id)
    /\ \A p \in Procs :
           (IsClaim(p) /\ proc[p].organization_id \in DOMAIN organizations)
               ~> (ClaimDone(p) /\ proc[p].outcome = "ok")

\* Three overlapping calls for the number that was absent all returned a
\* phone; one inserted it, the others lost the insert and re-fetched.
C2_Witness ==
    /\ \A p \in Procs : /\ ClaimDone(p)
                        /\ proc[p].number = "555"
                        /\ proc[p].outcome = "ok"
    /\ \E p, q \in Procs :
           /\ p # q
           /\ proc[p].organization_id # proc[q].organization_id
           /\ proc[p].inserts = 1 /\ proc[p].refetches = 0
           /\ proc[q].inserts = 1 /\ proc[q].refetches = 1

\* C3: no two phone rows share a number or an id, so a number is attached
\* to at most one organization.
C3_UniqueNumbers ==
    \A r1, r2 \in phones :
        (r1.number = r2.number \/ r1.id = r2.id) => r1 = r2

\* Two sessions raced to insert the same number: one of them hit the
\* unique constraint, and the number has one row.
C3_Witness ==
    /\ \E p \in Sessions :
           /\ ClaimDone(p)
           /\ proc[p].insert_error = "UniqueViolation"
           /\ proc[p].outcome = "ok"
           /\ Cardinality(RowsOf(phones, proc[p].number)) = 1
    /\ Cardinality(phones) >= 3

\* C4: a call of create_or_update(n, o) that does not overlap any other
\* call and returns leaves exactly one row for n, owned by o; the row keeps
\* the id it had before the call if n was stored, and the rows of all other
\* numbers are as before.
C4_SequentialClaim ==
    [][(/\ IsClaim(1)
        /\ proc'[1].pc = "done"
        /\ proc'[1].outcome = "ok")
       => LET number == proc[1].number
              before == RowsOf(phones, number)
              after == RowsOf(phones', number)
          IN /\ Cardinality(after) = 1
             /\ \A r \in after :
                    /\ r.organization_id = proc[1].organization_id
                    /\ r.id = proc'[1].id
                    /\ \A b \in before : b.id = r.id
                    /\ before = {} => r.id \notin {x.id : x \in phones}
             /\ phones' \ after = phones \ before]_vars

\* After the absent number 555 was inserted for organization 1, the seeded
\* number 111 was claimed by organization 2 and is still row 1.
C4_Witness ==
    /\ ClaimDone(1)
    /\ proc[1].outcome = "ok"
    /\ proc[1].number = "111"
    /\ proc[1].organization_id = 2
    /\ [id |-> 1, number |-> "111", organization_id |-> 2] \in phones
    /\ \E r \in phones : r.number = "555" /\ r.organization_id = 1

\* C5: create_or_update fails with PhoneRaceConditionError only after its
\* insert was rejected by the unique constraint on the number and the
\* re-fetch found no row; other storage failures reach the caller as
\* themselves.
C5_ReconciliationFailure ==
    \A p \in Procs :
        (ClaimDone(p) /\ proc[p].outcome = "PhoneRaceConditionError")
            => proc[p].insert_error = "UniqueViolation"


\* ================================================= organization properties
OrgTablesUnchanged ==
    /\ organizations' = organizations
    /\ phones' = phones
    /\ organization_activity' = organization_activity

\* The organization a create request returns is in the tables: its row, a
\* phone for each of its numbers, an association for each of its activities.
CreatePersisted(p, id, org) ==
    /\ id \notin DOMAIN organizations
    /\ id \in DOMAIN organizations'
    /\ organizations'[id] = [name |-> org.name, building_id |-> org.building_id]
    /\ org.phones = Range(proc[p].phone_numbers)
    /\ \A n \in org.phones :
           \E r \in phones' : r.number = n /\ r.organization_id = id
    /\ \A a \in org.activities : <<id, a>> \in organization_activity'

\* The organization an update request returns is in the tables as far as the
\* request changed it against what it loaded: the changed columns, the
\* phones attached and removed, the associations added and removed.
UpdatePersisted(p, org) ==
    LET id == proc[p].id
        loaded == proc[p].db_org
        old == proc[p].old_phones
    IN /\ id \in DOMAIN organizations'
          => /\ organizations'[id].name = org.name \/ loaded.name = org.name
             /\ \/ organizations'[id].building_id = org.building_id
                \/ loaded.building_id = org.building_id
       /\ proc[p].phone_numbers # Absent
          => org.phones = Range(proc[p].phone_numbers[1])
       /\ \A n \in org.phones :
              \/ \E r \in phones' : r.number = n /\ r.organization_id = id
              \/ \E l \in old : l.number = n
       /\ \A l \in old :
              l.number \notin org.phones => ~\E r \in phones' : r.id = l.id
       /\ \A a \in org.activities :
              <<id, a>> \in organization_activity' \/ a \in proc[p].old_activities
       /\ \A a \in proc[p].old_activities \ org.activities :
              <<id, a>> \notin organization_activity'

C11_DeleteDetaches ==
    /\ [][\A id \in ActivityIds :
             (/\ DeleteActivity(1, id)
              /\ id \in DOMAIN activities
              /\ \E oa \in organization_activity :
                     oa[2] \in {id} \cup Descendants(activities, id))
             => /\ proc'[1].result = TRUE
                /\ organizations' = organizations
                /\ id \notin DOMAIN activities'
                /\ \A oa \in organization_activity' : oa[2] \in DOMAIN activities']_vars
    /\ [](\A oa \in organization_activity : oa[2] \in DOMAIN activities)


NumbersOf(rows, id) == {r.number : r \in {x \in rows : x.organization_id = id}}

ActivitiesOf(assoc, id) == {oa[2] : oa \in {x \in assoc : x[1] = id}}

\* C12: an update of a stored organization that returns it has stored every
\* field the patch carries (the phones being exactly those with the patch's
\* numbers, the activities exactly the stored activities among the patch's
\* ids) and has left every field the patch does not carry as it was; an
\* update of an id that is not stored returns not-found and changes nothing.
C12_UpdateReplaces ==
    [][/\ \A name \in OptionOf(OrgNames), building_id \in BuildingInputs \cup {NULL},
             activity_ids \in OptionOf(ActivityIdInputs) :
              (/\ proc[1].pc = "org_update_commit"
               /\ proc'[1].pc = "done"
               /\ proc'[1].outcome = "ok"
               /\ name # Absent => proc'[1].result.name = name[1]
               /\ building_id # NULL => proc'[1].result.building_id = building_id
               /\ activity_ids # Absent
                  => proc'[1].result.activities \subseteq activity_ids[1]
               /\ OrgUpdateCommit(1, name, building_id, activity_ids))
              => LET id == proc[1].id
                     numbers == proc[1].phone_numbers
                 IN /\ id \in DOMAIN organizations'
                    /\ organizations'[id].name =
                           IF name = Absent THEN organizations[id].name ELSE name[1]
                    /\ organizations'[id].building_id =
                           IF building_id = NULL THEN organizations[id].building_id
                           ELSE building_id
                    /\ IF numbers = Absent THEN phones' = phones
                       ELSE NumbersOf(phones', id) = Range(numbers[1])
                    /\ ActivitiesOf(organization_activity', id) =
                           IF activity_ids = Absent
                           THEN ActivitiesOf(organization_activity, id)
                           ELSE activity_ids[1] \cap DOMAIN activities
                    /\ \A o \in DOMAIN organizations \ {id} :
                           /\ o \in DOMAIN organizations'
                           /\ organizations'[o] = organizations[o]
                           /\ ActivitiesOf(organization_activity', o) =
                                  ActivitiesOf(organization_activity, o)
       /\ \A id \in OrgIds, phone_numbers \in OptionOf(NumberLists) :
              (/\ proc[1] = Idle
               /\ id \notin DOMAIN organizations
               /\ phone_numbers # Absent => NoDuplicates(phone_numbers[1])
               /\ OrgUpdateGet(1, id, phone_numbers))
              => /\ proc'[1].pc = "done"
                 /\ proc'[1].outcome = "NotFound"
                 /\ OrgTablesUnchanged]_vars

\* An update replaced the name, the phones and the activities of
\* organization 1: its seeded phone and activity are gone.
C12_Witness ==
    /\ proc[1].pc = "done"
    /\ proc[1].op = "update_organization"
    /\ proc[1].outcome = "ok"
    /\ proc[1].id = 1
    /\ organizations[1].name = "n2"
    /\ NumbersOf(phones, 1) = {"555"}
    /\ ~\E r \in phones : r.number = "111"
    /\ ActivitiesOf(organization_activity, 1) = {2, 3}


\* C13: an organization create or update whose phone_numbers list holds a
\* number twice is rejected by validation, before any lookup, and leaves
\* organizations, phones and associations as they were.
C13_DuplicateNumbers ==
    [][\A phone_numbers \in NumberLists :
          ~NoDuplicates(phone_numbers)
          => /\ (proc[1] = Idle /\ OrgCreateStart(1, phone_numbers))
                => /\ proc'[1].pc = "done"
                   /\ proc'[1].outcome = "ValueError"
                   /\ OrgTablesUnchanged
             /\ \A id \in OrgIds :
                    (proc[1] = Idle /\ OrgUpdateGet(1, id, Given(phone_numbers)))
                    => /\ proc'[1].pc = "done"
                       /\ proc'[1].outcome = "ValueError"
                       /\ OrgTablesUnchanged]_vars

\* An update of organization 1 was rejected for a repeated number after an
\* earlier request; organization 1 still has its seeded phone.
C13_Witness ==
    /\ proc[1].pc = "done"
    /\ proc[1].op = "update_organization"
    /\ proc[1].outcome = "ValueError"
    /\ proc[1].id = 1
    /\ requests = 2
    /\ "111" \in NumbersOf(phones, 1)


\* C14: a create whose building exists succeeds whatever activity_ids it
\* carries: the new organization is associated with exactly the stored
\* activities among them, the others are dropped without error, and the
\* activities table and the other organizations' associations are untouched.
C14_UnknownActivitiesDropped ==
    [][\A name \in OrgNames, building_id \in Buildings,
          activity_ids \in ActivityIdInputs :
           (/\ proc[1].pc = "org_create_commit"
            /\ proc'[1].pc = "done"
            /\ proc'[1].outcome = "ok" => proc'[1].result.name = name
            /\ OrgCreateCommit(1, name, building_id, activity_ids))
           => /\ proc'[1].outcome = "ok"
              /\ ActivitiesOf(organization_activity', proc'[1].id) =
                     activity_ids \cap DOMAIN activities
              /\ activities' = activities
              /\ activity_seq' = activity_seq
              /\ \A o \in DOMAIN organizations :
                     ActivitiesOf(organization_activity', o) =
                         ActivitiesOf(organization_activity, o)]_vars

\* An organization was created after activity 4 had been created; of the
\* ids it could be given it is associated with activity 1 only.
C14_Witness ==
    /\ proc[1].pc = "done"
    /\ proc[1].op = "create_organization"
    /\ proc[1].outcome = "ok"
    /\ proc[1].result.activities = {1}
    /\ ActivitiesOf(organization_activity, proc[1].id) = {1}
    /\ DOMAIN activities = 1..4
    /\ MaxActivityId + 1 \notin DOMAIN activities


\* The organizations associated with an activity or one of its descendants.
OrganizationsUnder(a) ==
    {o \in DOMAIN organizations :
        \E x \in {a} \cup Descendants(activities, a) :
            <<o, x>> \in organization_activity}

\* C15 (what is returned): get_by_activity(a) returns, each once, the
\* organizations associated with a or a descendant of a when a is stored,
\* and the empty list when it is not.
GetByActivityExact ==
    (proc[1].pc = "done" /\ proc[1].op = "get_by_activity")
    => IF proc[1].activity_id \in DOMAIN activities
       THEN /\ NoDuplicates(proc[1].result)
            /\ Range(proc[1].result) = OrganizationsUnder(proc[1].activity_id)
       ELSE proc[1].result = <<>>

\* C15: in every state of the store, for every activity id,
\* get_by_activity returns, and what it returns is as above.
C15_GetByActivity ==
    /\ []GetByActivityExact
    /\ (proc[1].pc = "get_by_activity") ~> (proc[1].pc = "done")

\* The buildings within the radius of a center, boundary included.
Selected(latitude, radius) ==
    {b \in Buildings :
        haversine(latitude, BuildingLatitude[b]) <= to_meters(radius[2], radius[1])}

ValidGeoQuery(q) ==
    /\ q.radius[1] > 0
    /\ q.latitude \in -90..90
    /\ q.longitude \in -180..180

\* C16: a valid radius query returns, each once, exactly the organizations
\* whose building lies at a distance <= the radius from the center (distance
\* 0 and distance equal to the radius included, the empty list when there is
\* none); a radius <= 0 is rejected.
C16_RadiusQuery ==
    (proc[1].pc = "done" /\ proc[1].op = "get_by_radius")
    => LET q == proc[1]
       IN /\ q.radius[1] <= 0 => q.outcome = "ValueError"
          /\ ValidGeoQuery(q) =>
                /\ q.outcome = "ok"
                /\ NoDuplicates(q.result)
                /\ Range(q.result) =
                       {o \in DOMAIN organizations :
                           organizations[o].building_id
                               \in Selected(q.latitude, q.radius)}

\* A valid query answered with organizations whose buildings lie exactly at
\* the radius.
C16_Witness ==
    /\ proc[1].pc = "done" /\ proc[1].op = "get_by_radius"
    /\ ValidGeoQuery(proc[1])
    /\ proc[1].result # <<>>
    /\ \A i \in DOMAIN proc[1].result :
          haversine(proc[1].latitude,
                    BuildingLatitude[organizations[proc[1].result[i]].building_id])
              = to_meters(proc[1].radius[2], proc[1].radius[1])

\* C17: whatever activity requests have been served, the stored parent_id
\* relation is a forest: no activity is its own ancestor.
C17_Forest == IsForest(activities)

\* C18: an update of a stored activity that names a stored parent succeeds
\* and stores that parent, whatever the depth of the result; nothing else in
\* the hierarchy changes.
C18_UpdateIgnoresDepth ==
    [][(/\ proc[1] = Idle
        /\ proc'[1].pc = "done"
        /\ proc'[1].op = "update_activity"
        /\ proc'[1].id \in DOMAIN activities
        /\ proc'[1].parent_id \in DOMAIN activities)
       => /\ proc'[1].outcome = "ok"
          /\ activities' =
                 [activities EXCEPT ![proc'[1].id].parent_id = proc'[1].parent_id]]_vars

\* A successful update has just put an activity at level 4 of a forest.
C18_Witness ==
    /\ proc[1].pc = "done" /\ proc[1].op = "update_activity"
    /\ proc[1].outcome = "ok"
    /\ proc[1].id \in DOMAIN activities
    /\ activities[proc[1].id].parent_id = proc[1].parent_id
    /\ IsForest(activities)
    /\ Level(activities, proc[1].id) >= 4

\* The numbers a pending organization create or update looked up and did
\* not find.
LookedUpAbsent(p) ==
    LET numbers == IF proc[p].pc = "org_create_commit"
                   THEN Range(proc[p].phone_numbers)
                   ELSE IF proc[p].phone_numbers = Absent THEN {}
                   ELSE Range(proc[p].phone_numbers[1])
    IN numbers \ {r.number : r \in proc[p].found}

OrgWritePending(p) == proc[p].pc \in {"org_create_commit", "org_update_commit"}

\* Since the lookup of p another operation has committed a number p is
\* about to insert; nothing p loaded has changed otherwise.
LostRace(p) ==
    /\ OrgWritePending(p)
    /\ \E n \in LookedUpAbsent(p) : \E r \in phones : r.number = n
    /\ proc[p].found \subseteq phones
    /\ proc[p].pc = "org_update_commit" => proc[p].id \in DOMAIN organizations

\* C19: of the organization creates and updates that looked up the same
\* absent number before any of them committed, the one that commits after
\* another has committed the number fails with the uniqueness error and
\* writes nothing; the one that commits owns the only row of each number it
\* inserted.
C19_ConcurrentOrgWrites ==
    [][\A p \in Sessions :
          (OrgWritePending(p) /\ proc'[p].pc = "done")
          => /\ LostRace(p) =>
                   /\ proc'[p].outcome = "IntegrityError"
                   /\ OrgTablesUnchanged
                   /\ organization_seq' = organization_seq
             /\ proc'[p].outcome = "ok" =>
                   \A n \in LookedUpAbsent(p) :
                       /\ Cardinality({r \in phones' : r.number = n}) = 1
                       /\ \A r \in phones' :
                             r.number = n => r.organization_id = proc'[p].id]_vars

\* Session 1 has committed an organization with a number that session 2
\* looked up as absent and is about to insert.
C19_Witness ==
    /\ proc[1].pc = "done" /\ proc[1].outcome = "ok"
    /\ proc[1].op \in {"create_organization", "update_organization"}
    /\ LostRace(2)
    /\ \E n \in LookedUpAbsent(2) :
          /\ n \in proc[1].result.phones
          /\ \E r \in phones : r.number = n /\ r.organization_id = proc[1].id

\* C20: when an update of organization id with phone numbers S commits,
\* the phones id owned whose number is not in S are gone from the store, and
\* every phone with a number in S that had another owner is now the only row
\* of its number and belongs to id.
C20_UpdateMovesPhones ==
    [][(/\ proc[1].pc = "org_update_commit"
        /\ proc[1].phone_numbers # Absent
        /\ proc'[1].pc = "done"
        /\ proc'[1].outcome = "ok")
       => LET S == Range(proc[1].phone_numbers[1])
              id == proc[1].id
          IN /\ \A r \in phones :
                   (r.organization_id = id /\ r.number \notin S)
                   => ~\E q \in phones' : q.id = r.id
             /\ \A r \in phones :
                   (r.organization_id # id /\ r.number \in S)
                   => /\ [r EXCEPT !.organization_id = id] \in phones'
                      /\ Cardinality({q \in phones' : q.number = r.number}) = 1
        ]_vars

\* The first request, an update of organization 2 with the number of
\* organization 1, has committed: phone 1 has moved and phone 2 is gone.
C20_Witness ==
    /\ requests = 1
    /\ proc[1].pc = "done" /\ proc[1].op = "update_organization"
    /\ proc[1].outcome = "ok" /\ proc[1].id = 2
    /\ proc[1].result.phones = {"111"}
    /\ [id |-> 1, number |-> "111", organization_id |-> 2] \in phones
    /\ ~\E r \in phones : r.id = 2

\* C21: an update never clears a parent: every activity that had a parent
\* before an update call has one after it, and a patch whose parent_id is
\* null leaves the whole hierarchy as it was.
C21_UpdateKeepsParent ==
    [][(/\ proc[1] = Idle
        /\ proc'[1].pc = "done"
        /\ proc'[1].op = "update_activity")
       => /\ DOMAIN activities' = DOMAIN activities
          /\ \A a \in DOMAIN activities :
                activities[a].parent_id # NULL => activities'[a].parent_id # NULL
          /\ proc'[1].parent_id = NULL => activities' = activities]_vars

\* An update with parent_id null has been served for an activity that has
\* a parent.
C21_Witness ==
    /\ proc[1].pc = "done" /\ proc[1].op = "update_activity"
    /\ proc[1].outcome = "ok"
    /\ proc[1].parent_id = NULL
    /\ proc[1].id \in DOMAIN activities
    /\ activities[proc[1].id].parent_id # NULL

====
